---- MODULE Spec2Model ----
(***************************************************************************)
(* Model of the EventEmitter class of src/src/index.ts.                    *)
(*                                                                         *)
(* The emitter owns three collections (#calls, #waiters, #timeouts).  The  *)
(* host contributes the timers created by setTimeout, the promises created *)
(* by wait() and the JavaScript call stack.  A JavaScript Set iterates in  *)
(* insertion order over the live collection, so a Set is modelled as a     *)
(* sequence without duplicates and a running for..of loop as a position in *)
(* that sequence.  Everything runs on one thread: a listener runs inside   *)
(* the emit that invoked it, and a timer callback only runs when the call  *)
(* stack is empty.                                                         *)
(***************************************************************************)
EXTENDS Integers, Sequences, FiniteSets, TLC

\* ---------------------------------------------------------------- bounds
Keys == {"k1", "k2"}          \* event keys (type T)
Payloads == {"p1", "p2"}      \* event payloads (type E)
MaxOnce == 1                  \* once() calls of user code in one behaviour
MaxWaits == 1                 \* wait() calls in one behaviour
MaxDepth == 2                 \* nested emit calls on the call stack
MaxPass == 3                  \* listener invocations followed in one emit
MaxCount == 2                 \* invocation counters saturate here

\* --------------------------------------------------------------- values
None == <<>>                              \* undefined
Fn(i) == <<"fn", i>>                      \* a user callback
Wr(i) == <<"wr", i>>                      \* the wrapper closure of the i-th once()
WaitCb(w) == <<"wait", w>>                \* the closure wait() hands to once()
Fns == {Fn(1), Fn(2)}                    \* the user callbacks
TimeoutArgs == {None, <<0>>, <<-1>>, <<1>>}   \* timeout?: number
Truthy(t) == t # None /\ t[1] # 0         \* if (timeout)

VARIABLES
    calls,      \* #calls: key -> Set of callbacks, in insertion order
    waiters,    \* #waiters: the reject function of wait w is w
    timeouts,   \* #timeouts: the timer handle of wait w is w
    timer,      \* host timers: state of the timer of wait w
    promise,    \* the promise returned by wait w
    waits,      \* the wait() calls made so far: the key each waits for
    wrappers,   \* closures created by once(): type, callbackFn; history:
                \* times called (saturating), whether a call has returned
    stack,      \* call stack: one frame per emit() in progress
    reg         \* history: how on/off/destroy last changed whether a user
                \* callback is registered under a key

vars == <<calls, waiters, timeouts, timer, promise, waits, wrappers, stack, reg>>

\* ------------------------------------------------------- Set operations
Has(s, e) == \E i \in 1..Len(s) : s[i] = e
IndexOf(s, e) == IF Has(s, e) THEN CHOOSE i \in 1..Len(s) : s[i] = e ELSE 0
Elems(s) == {s[i] : i \in 1..Len(s)}
Count(s, e) == Cardinality({i \in 1..Len(s) : s[i] = e})

\* an add that appends even a value that is already present
SetAddAlways(s, e) == Append(s, e)

\* Set.prototype.add: appends unless the value is already present
SetAdd(s, e) == IF Has(s, e) THEN s ELSE Append(s, e)

\* a delete that removes nothing
SetDeleteSkipped(s, e) == s

\* Set.prototype.delete
SetDelete(s, e) ==
    LET p == IndexOf(s, e)
    IN IF p = 0 THEN s ELSE SubSeq(s, 1, p - 1) \o SubSeq(s, p + 1, Len(s))

\* this.#calls.get(type) ?? []
Listeners(c, k) == IF k \in DOMAIN c THEN c[k] ELSE <<>>

Registered(e) == \E k \in DOMAIN calls : Has(calls[k], e)

\* ------------------------------------------------------------- promises
Pending == [st |-> "pending", val |-> "none"]

\* a promise that could be settled again
SettleAgain(p, st, val) == [st |-> st, val |-> val]

\* resolve()/reject() of a promise: only the first call settles it
Settle(p, st, val) == IF p.st = "pending" THEN [st |-> st, val |-> val] ELSE p

\* clearTimeout(t): cancels a scheduled timer, otherwise does nothing
ClearTimeout(ts) == IF ts = "active" THEN "cleared" ELSE ts

\* ----------------------------------------------------------- call stack
Top == stack[Len(stack)]

\* Code that calls the emitter runs either at top level (empty stack) or
\* inside the user callback that the innermost emit is currently running.
CanCall == IF stack = <<>> THEN TRUE ELSE Top.running # None

\* a loop that keeps its position when an element before it is deleted
NoShift(stk, k, p) == stk

\* A Set iterator visits the elements in insertion order and reads the live
\* Set: when the element at position p of k's Set is deleted, the elements
\* behind it move up, and so does every running loop that is past p.
Shift(stk, k, p) ==
    IF stk = <<>> THEN <<>> ELSE
    [i \in 1..Len(stk) |->
        IF stk[i].key = k /\ stk[i].attached /\ p > 0 /\ p <= stk[i].idx
        THEN [stk[i] EXCEPT !.idx = @ - 1]
        ELSE stk[i]]

\* history: user code changed whether e belongs to k's Set while the loops of
\* these frames were running
Touch(stk, k, changed, e) ==
    IF stk = <<>> THEN <<>> ELSE
    [i \in 1..Len(stk) |->
        IF stk[i].key = k /\ stk[i].attached /\ changed
        THEN [stk[i] EXCEPT !.touched = @ \cup {e}]
        ELSE stk[i]]

\* ------------------------------------------------------------------ on
CallsAdd(c, k, e) ==
    LET c1 == IF k \in DOMAIN c THEN c ELSE [x \in DOMAIN c \cup {k} |-> IF x = k THEN <<>> ELSE c[x]]
    IN [c1 EXCEPT ![k] = SetAdd(c1[k], e)]

On(k, e) ==
    /\ CanCall
    /\ calls' = CallsAdd(calls, k, e)
    /\ stack' = Touch(stack, k, ~Has(Listeners(calls, k), e), e)
    /\ reg' = [reg EXCEPT ![<<k, e>>] = IF @ \in {"on", "again"} THEN "again" ELSE "on"]
    /\ UNCHANGED <<waiters, timeouts, timer, promise, waits, wrappers>>

\* ----------------------------------------------------------------- off
\* an off that drops the whole Set of the key
CallsDeleteKey(c, k, e) == [x \in DOMAIN c \ {k} |-> c[x]]

CallsDelete(c, k, e) ==
    IF k \in DOMAIN c THEN [c EXCEPT ![k] = SetDelete(c[k], e)] ELSE c

Off(k, e) ==
    /\ CanCall
    /\ calls' = CallsDelete(calls, k, e)
    /\ stack' = Touch(Shift(stack, k, IndexOf(Listeners(calls, k), e)),
                      k, Has(Listeners(calls, k), e), e)
    /\ reg' = [reg EXCEPT ![<<k, e>>] = IF @ \in {"on", "again"} THEN "gone" ELSE @]
    /\ UNCHANGED <<waiters, timeouts, timer, promise, waits, wrappers>>

\* ---------------------------------------------------------------- once
NewWrapper(k, cb) == [type |-> k, cb |-> cb, ncalled |-> 0, returned |-> FALSE]

NumOnce == Cardinality({i \in 1..Len(wrappers) : wrappers[i].cb[1] = "fn"})

Once(k, cb) ==
    /\ CanCall
    /\ NumOnce < MaxOnce
    /\ wrappers' = Append(wrappers, NewWrapper(k, cb))
    /\ calls' = CallsAdd(calls, k, Wr(Len(wrappers) + 1))
    /\ stack' = Touch(stack, k, TRUE, Wr(Len(wrappers) + 1))
    /\ UNCHANGED <<waiters, timeouts, timer, promise, waits, reg>>

\* ---------------------------------------------------------------- wait
Wait(k, t) ==
    /\ CanCall
    /\ Len(waits) < MaxWaits
    /\ LET w == Len(waits) + 1
       IN /\ waits' = Append(waits, [type |-> k])
          /\ promise' = Append(promise, Pending)
          /\ waiters' = waiters \cup {w}
          /\ timer' = Append(timer, IF Truthy(t) THEN "active" ELSE "none")
          /\ timeouts' = IF Truthy(t) THEN timeouts \cup {w} ELSE timeouts
          /\ wrappers' = Append(wrappers, NewWrapper(k, WaitCb(w)))
          /\ calls' = CallsAdd(calls, k, Wr(Len(wrappers) + 1))
          /\ stack' = Touch(stack, k, TRUE, Wr(Len(wrappers) + 1))
    /\ UNCHANGED reg

\* the setTimeout callback of wait w; the host runs it on an empty stack
TimerFire(w) ==
    /\ stack = <<>>
    /\ w \in 1..Len(waits)
    /\ timer[w] = "active"
    /\ timer' = [timer EXCEPT ![w] = "fired"]
    /\ timeouts' = timeouts \ {w}
    /\ promise' = [promise EXCEPT ![w] = Settle(@, "timedout", "none")]
    /\ UNCHANGED <<calls, waiters, waits, wrappers, stack, reg>>

\* ---------------------------------------------------------------- emit
NewFrame(k, d) ==
    [key |-> k, data |-> d, idx |-> 0, attached |-> k \in DOMAIN calls,
     running |-> None, arg |-> None,
     snap |-> Listeners(calls, k), seen |-> <<>>, touched |-> {},
     born |-> Len(waits)]

\* emit(type, data) is called: the for..of loop starts
EmitBegin(k, d) ==
    /\ CanCall
    /\ Len(stack) < MaxDepth
    /\ stack' = Append(stack, NewFrame(k, d))
    /\ UNCHANGED <<calls, waiters, timeouts, timer, promise, waits, wrappers, reg>>

Bump(n) == IF n < MaxCount THEN n + 1 ELSE n

\* callFn(data, this): what emit passes to a callback
CallArgs(f) == <<f.data, "this">>

\* a once wrapper that never removes itself
WrapperOffSkipped(c, k, e) == c

\* this.off(type, wrapper), the last statement of a once wrapper
WrapperOff(c, k, e) == CallsDelete(c, k, e)

\* a loop that stops after the first element of the Set
HasNextFirstOnly(f) == f.attached /\ f.idx < Len(Listeners(calls, f.key)) /\ f.idx < 1

HasNext(f) == f.attached /\ f.idx < Len(Listeners(calls, f.key))

\* the loop of emit takes the next callback of the Set and calls it with
\* (data, this).  A user callback (directly, or through a once wrapper)
\* starts running; the closure of wait() runs to its end at once, followed
\* by the wrapper's off(type, wrapper).
EmitNext ==
    /\ stack # <<>>
    /\ Top.running = None
    /\ HasNext(Top)
    /\ Len(Top.seen) < MaxPass
    /\ LET f == Top
           e == calls[f.key][f.idx + 1]
           g == [f EXCEPT !.idx = f.idx + 1, !.seen = Append(f.seen, e)]
           stk == [stack EXCEPT ![Len(stack)] = g]
       IN IF e[1] = "wr" /\ wrappers[e[2]].cb[1] = "wait"
          THEN LET w == wrappers[e[2]].cb[2]
                   stk2 == Shift(stk, f.key, IndexOf(calls[f.key], e))
               IN /\ timer' = [timer EXCEPT ![w] = ClearTimeout(@)]
                  /\ waiters' = waiters \ {w}
                  /\ promise' = [promise EXCEPT ![w] = Settle(@, "resolved", f.data)]
                  /\ wrappers' = [wrappers EXCEPT ![e[2]].ncalled = Bump(@),
                                                  ![e[2]].returned = TRUE]
                  /\ calls' = WrapperOff(calls, f.key, e)
                  /\ stack' = stk2
                  /\ UNCHANGED <<timeouts, waits, reg>>
          ELSE /\ stack' = [stk EXCEPT ![Len(stk)].running = e,
                                       ![Len(stk)].arg = CallArgs(f)]
               /\ wrappers' = IF e[1] = "wr"
                              THEN [wrappers EXCEPT ![e[2]].ncalled = Bump(@)]
                              ELSE wrappers
               /\ UNCHANGED <<calls, waiters, timeouts, timer, promise, waits, reg>>

\* the running user callback returns; a once wrapper then calls
\* this.off(type, wrapper)
Return ==
    /\ stack # <<>>
    /\ Top.running # None
    /\ LET f == Top
           e == f.running
           stk == [stack EXCEPT ![Len(stack)].running = None,
                                ![Len(stack)].arg = None]
       IN IF e[1] = "wr"
          THEN LET k == wrappers[e[2]].type
               IN /\ calls' = WrapperOff(calls, k, e)
                  /\ stack' = Shift(stk, k, IndexOf(Listeners(calls, k), e))
                  /\ wrappers' = [wrappers EXCEPT ![e[2]].returned = TRUE]
          ELSE /\ stack' = stk
               /\ UNCHANGED <<calls, wrappers>>
    /\ UNCHANGED <<waiters, timeouts, timer, promise, waits, reg>>

\* a once wrapper that runs its off() in a finally block: the exception
\* still reaches the caller of emit, but the wrapper is unregistered
ThrowFinally ==
    /\ stack # <<>>
    /\ Top.running # None
    /\ stack' = Shift(SubSeq(stack, 1, Len(stack) - 1), Top.key,
                      IndexOf(Listeners(calls, Top.key), Top.running))
    /\ calls' = IF Top.running[1] = "wr"
                THEN WrapperOff(calls, Top.key, Top.running)
                ELSE calls
    /\ UNCHANGED <<waiters, timeouts, timer, promise, waits, wrappers, reg>>

\* the running user callback throws: nothing in once() or emit() catches,
\* so the wrapper's off() is skipped, the loop of emit is abandoned and the
\* exception reaches the caller of emit
Throw ==
    /\ stack # <<>>
    /\ Top.running # None
    /\ stack' = SubSeq(stack, 1, Len(stack) - 1)
    /\ UNCHANGED <<calls, waiters, timeouts, timer, promise, waits, wrappers, reg>>

\* the loop of emit has no further element: emit returns
EmitEnd ==
    /\ stack # <<>>
    /\ Top.running = None
    /\ ~HasNext(Top)
    /\ stack' = SubSeq(stack, 1, Len(stack) - 1)
    /\ UNCHANGED <<calls, waiters, timeouts, timer, promise, waits, wrappers, reg>>

\* ------------------------------------------------------------- destroy
\* for (const reject of this.#waiters) reject("EventEmitter destroyed")
RejectAll(p, ws) ==
    IF p = <<>> THEN <<>> ELSE
    [w \in 1..Len(p) |-> IF w \in ws THEN Settle(p[w], "destroyed", "none") ELSE p[w]]

\* a destroy() that leaves the timers running
ClearAllSkipped(tm, ts) == tm

\* for (const timeout of this.#timeouts) clearTimeout(timeout)
ClearAll(tm, ts) ==
    IF tm = <<>> THEN <<>> ELSE
    [w \in 1..Len(tm) |-> IF w \in ts THEN ClearTimeout(tm[w]) ELSE tm[w]]

\* set[1].clear() for every Set, then this.#calls.clear(): the Sets that
\* running loops iterate are emptied and no longer belong to the Map
ClearCalls(c) == [k \in {} |-> <<>>]

Detach(stk) ==
    IF stk = <<>> THEN <<>> ELSE
    [i \in 1..Len(stk) |-> [stk[i] EXCEPT !.attached = FALSE]]

Destroy ==
    /\ CanCall
    /\ promise' = RejectAll(promise, waiters)
    /\ timer' = ClearAll(timer, timeouts)
    /\ calls' = ClearCalls(calls)
    /\ stack' = Detach(stack)
    /\ reg' = [p \in DOMAIN reg |-> "none"]
    /\ UNCHANGED <<waiters, timeouts, waits, wrappers>>

\* ------------------------------------------------------- specification
Init ==
    /\ calls = [k \in {} |-> <<>>]
    /\ waiters = {}
    /\ timeouts = {}
    /\ timer = <<>>
    /\ promise = <<>>
    /\ waits = <<>>
    /\ wrappers = <<>>
    /\ stack = <<>>
    /\ reg = [p \in Keys \X Fns |-> "none"]

\* emit called by top-level code
EmitTop(k, d) == stack = <<>> /\ EmitBegin(k, d)

\* The life cycle of wait(): waits, timers, emits and destroy, with one
\* user callback that may call the emitter from inside an emit.
NextWait ==
    \/ \E k \in Keys : On(k, Fn(1))
    \/ \E k \in Keys : Off(k, Fn(1))
    \/ \E k \in Keys, t \in TimeoutArgs : Wait(k, t)
    \/ \E w \in 1..MaxWaits : TimerFire(w)
    \/ \E k \in Keys, d \in Payloads : EmitTop(k, d)
    \/ EmitNext
    \/ Return
    \/ Throw
    \/ EmitEnd
    \/ Destroy

SpecWait == Init /\ [][NextWait]_vars

\* Listeners: on, off, emit and destroy, called by top-level code and (all
\* but emit) by the callbacks an emit is running.
NextEmit ==
    \/ \E k \in Keys, e \in Fns : On(k, e)
    \/ \E k \in Keys, e \in Fns : Off(k, e)
    \/ \E k \in Keys, d \in Payloads : EmitTop(k, d)
    \/ EmitNext
    \/ Return
    \/ Throw
    \/ EmitEnd
    \/ Destroy

SpecEmit == Init /\ [][NextEmit]_vars

\* One-time listeners: once next to on and off of one callback, emit and
\* destroy, called by top-level code and (all but emit) by running callbacks.
NextOnce ==
    \/ \E k \in Keys : On(k, Fn(1))
    \/ \E k \in Keys : Off(k, Fn(1))
    \/ \E k \in Keys : Once(k, Fn(1))
    \/ \E k \in Keys, d \in Payloads : EmitTop(k, d)
    \/ EmitNext
    \/ Return
    \/ Throw
    \/ EmitEnd
    \/ Destroy

SpecOnce == Init /\ [][NextOnce]_vars

\* Re-entrant emit: one callback, registered with on or once, that may call
\* emit again from inside an emit.
NextNest ==
    \/ On("k1", Fn(1))
    \/ Off("k1", Fn(1))
    \/ Once("k1", Fn(1))
    \/ \E d \in Payloads : EmitBegin("k1", d)
    \/ EmitNext
    \/ Return
    \/ EmitEnd

SpecNest == Init /\ [][NextNest]_vars

\* ========================================================== properties
WaitIds == 1..Len(waits)
Empty(c) == \A k \in Keys : Listeners(c, k) = <<>>
WrapperOf(w) == CHOOSE i \in 1..Len(wrappers) : wrappers[i].cb = WaitCb(w)
HasTimer(w) == timer[w] # "none"
PassDone(f) == f.running = None /\ ~HasNext(f)

\* C1: destroy() rejects every wait that is pending with 'destroyed' and the
\* outcome stays 'destroyed'; after destroy() no timer is scheduled and a
\* cancelled timer never fires; the registry is empty, the running loops
\* have nothing left to visit, and emit only ever invokes a callback that is
\* in the registry, so none is invoked until something is registered again.
C1_Destroy ==
    [][/\ Destroy =>
            /\ \A w \in WaitIds :
                  /\ promise[w].st = "pending" =>
                        promise'[w] = [st |-> "destroyed", val |-> "none"]
                  /\ timer'[w] # "active"
            /\ Empty(calls')
            /\ \A i \in 1..Len(stack') : ~stack'[i].attached
       /\ \A w \in WaitIds :
            /\ promise[w].st = "destroyed" => promise'[w] = promise[w]
            /\ timer[w] = "cleared" => timer'[w] = "cleared"
       /\ EmitNext =>
            LET g == stack'[Len(stack)]
            IN Has(Listeners(calls, Top.key), g.seen[Len(g.seen)])
      ]_vars

\* C1 witness: a wait with a timer was rejected by destroy(), its timer is
\* cancelled, and an emit of its key issued afterwards found nothing to call
C1_Witness ==
    /\ stack # <<>>
    /\ \E w \in WaitIds :
          /\ promise[w].st = "destroyed"
          /\ timer[w] = "cleared"
          /\ Top.key = waits[w].type
          /\ Top.born >= w
          /\ Top.snap = <<>>
          /\ Top.seen = <<>>
    /\ Empty(calls)

\* C2: right after destroy() the registry, the waiters set and the timeout
\* set are all empty.
C2_AllEmptyAfterDestroy ==
    [][Destroy => Empty(calls') /\ waiters' = {} /\ timeouts' = {}]_vars

\* C3: a wait with a timer that was resolved by an emit has its timer
\* cancelled and its timer handle is no longer in the timeout set.
C3_ResolvedTimerReleased ==
    \A w \in WaitIds :
        promise[w].st = "resolved" /\ HasTimer(w) =>
            timer[w] = "cleared" /\ w \notin timeouts

\* C4: the timer of a wait fires only while the wait is pending and rejects
\* it with 'timed out'; once timed out, no later step (a late emit of the
\* key included) changes the outcome.
C4_Timeout ==
    [][\A w \in WaitIds :
          /\ timer[w] = "active" /\ timer'[w] = "fired" =>
                /\ promise[w].st = "pending"
                /\ promise'[w] = [st |-> "timedout", val |-> "none"]
          /\ promise[w].st = "timedout" => promise'[w] = promise[w]
      ]_vars

\* C4 witness: a wait timed out and a later emit of its key has run its
\* listener
C4_Witness ==
    \E w \in WaitIds :
        /\ promise[w].st = "timedout"
        /\ timer[w] = "fired"
        /\ wrappers[WrapperOf(w)].ncalled = 1

\* C5: once a wait is settled its outcome never changes, and the paths that
\* come later (its listener run by an emit, its timer) change neither the
\* registry nor the waiters set nor the timeout set.
C5_LatePathsAreNoOps ==
    [][\A w \in WaitIds :
          promise[w].st # "pending" =>
             /\ promise'[w] = promise[w]
             /\ (\/ wrappers'[WrapperOf(w)].ncalled # wrappers[WrapperOf(w)].ncalled
                 \/ timer[w] = "active" /\ timer'[w] = "fired")
                => calls' = calls /\ waiters' = waiters /\ timeouts' = timeouts
      ]_vars

\* C6: a wait without a timer is resolved only by an emit of its key that
\* was called after the wait was registered, with the payload of that emit,
\* and once resolved its value never changes.
C6_ResolvedByLaterEmit ==
    [][\A w \in WaitIds :
          /\ ~HasTimer(w) /\ promise[w].st # "resolved" /\ promise'[w].st = "resolved" =>
                /\ promise[w].st = "pending"
                /\ stack # <<>>
                /\ Top.key = waits[w].type
                /\ promise'[w].val = Top.data
                /\ Top.born >= w
          /\ ~HasTimer(w) /\ promise[w].st = "resolved" => promise'[w] = promise[w]
      ]_vars

OnceIds == {i \in 1..Len(wrappers) : wrappers[i].cb[1] = "fn"}

\* C7: once the callback of a once(K, L) registration has been invoked and
\* has returned, its wrapper is not in the registry and L is never invoked
\* again for that registration; an emit of K that starts with the wrapper
\* registered and runs to its end invokes it exactly once and leaves it
\* unregistered, so a second emit does not invoke L.
C7_OnceTwoEmits ==
    /\ [](\A i \in OnceIds :
            /\ wrappers[i].returned => ~Registered(Wr(i))
            /\ (stack # <<>> /\ PassDone(Top) /\ Top.attached /\ Has(Top.snap, Wr(i)))
                  => Count(Top.seen, Wr(i)) = 1 /\ ~Registered(Wr(i)))
    /\ [][\A i \in OnceIds :
            wrappers[i].returned => wrappers'[i].ncalled = wrappers[i].ncalled]_vars

\* C7 witness: L was invoked once by a first emit and a second emit of the
\* same key, during which nothing was registered, has run to its end without
\* invoking it
C7_Witness ==
    /\ stack # <<>>
    /\ PassDone(Top)
    /\ Top.attached
    /\ Top.touched = {}
    /\ \E i \in OnceIds :
          /\ wrappers[i].ncalled = 1
          /\ wrappers[i].returned
          /\ Top.key = wrappers[i].type
          /\ ~Has(Top.snap, Wr(i))
          /\ ~Has(Top.seen, Wr(i))

\* C8: whatever the callbacks do, emit again from inside an emit included,
\* the callback of one once() registration is invoked at most once, and once
\* it has returned the wrapper is unregistered.
C8_OnceAtMostOnce ==
    \A i \in OnceIds :
        /\ wrappers[i].ncalled <= 1
        /\ wrappers[i].returned => ~Registered(Wr(i))

\* C9: a callback that was added to the key of a running emit by one of the
\* callbacks of that emit is not invoked by that emit.
C9_SnapshotIteration ==
    \A j \in 1..Len(stack) :
        \A e \in stack[j].touched :
            ~Has(stack[j].snap, e) => ~Has(stack[j].seen, e)

Reg(k, e) == reg[<<k, e>>]

\* C11: a listener L that was registered under K with on and then removed
\* with off is no longer in the Set of K, and an emit of K does not invoke it
\* (unless a callback of that emit registers it again); every other
\* on-listener registered under K when the emit began, and not added or
\* removed meanwhile, has been invoked exactly once when the emit has run to
\* its end; and off(K, L) leaves the other entries of the Set of K, in their
\* order, and the Sets of the other keys as they were.
C11_OffThenEmit ==
    /\ [](\A L \in Fns :
            /\ \A k \in Keys : Reg(k, L) = "gone" => ~Has(Listeners(calls, k), L)
            /\ \A j \in 1..Len(stack) :
                  LET f == stack[j]
                  IN /\ (f.attached /\ Reg(f.key, L) = "gone" /\ L \notin f.touched)
                          => ~Has(f.seen, L)
                     /\ (PassDone(f) /\ f.attached /\ Reg(f.key, L) = "gone")
                          => \A M \in Fns \ {L} :
                                (Has(f.snap, M) /\ M \notin f.touched)
                                    => Count(f.seen, M) = 1)
    /\ [][\A k \in Keys, L \in Fns :
            (Reg(k, L) # "gone" /\ reg'[<<k, L>>] = "gone") =>
               /\ \A x \in Keys \ {k} : Listeners(calls', x) = Listeners(calls, x)
               /\ Listeners(calls', k) = SelectSeq(Listeners(calls, k), LAMBDA x : x # L)]_vars

\* C11 witness: Fn(1) was registered under the key and removed with off,
\* and an emit of that key, during which nothing was registered or removed,
\* has run to its end and invoked Fn(2) only
C11_Witness ==
    /\ stack # <<>>
    /\ PassDone(Top)
    /\ Top.attached
    /\ Top.touched = {}
    /\ Reg(Top.key, Fn(1)) = "gone"
    /\ Top.seen = <<Fn(2)>>

\* nothing is left for destroy() to do: no listener, no pending wait, no
\* scheduled timer (the state destroy() leaves behind)
NothingToDestroy ==
    /\ Empty(calls)
    /\ \A w \in WaitIds : promise[w] # Pending /\ timer[w] # "active"

\* the listeners of every key, #waiters, #timeouts, the outcome of every
\* wait and the timers are the same before and after the step
SameEmitter ==
    /\ \A k \in Keys : Listeners(calls', k) = Listeners(calls, k)
    /\ UNCHANGED <<waiters, timeouts, promise, timer>>

\* C12: a step that changes the listeners of a key, #waiters, #timeouts or
\* the outcome of a wait is none of: off(K, L) when L is not in the Set of K
\* (or K has no Set), emit(K, _) when K has no listener, destroy() when a
\* destroy() has just run.  Such an emit invokes nothing and is at its end
\* at once.  No step of on, off, once, emit or destroy raises:
\* the only exception is the one a user callback throws.
C12_DegenerateCalls ==
    [][/\ ~SameEmitter =>
            /\ \A k \in Keys, e \in Fns :
                  ~(~Has(Listeners(calls, k), e) /\ Off(k, e))
            /\ \A k \in Keys, d \in Payloads :
                  ~(Listeners(calls, k) = <<>> /\ EmitBegin(k, d))
            /\ ~(NothingToDestroy /\ Destroy)
       /\ Len(stack') > Len(stack) =>
            \A k \in Keys, d \in Payloads :
                (Listeners(calls, k) = <<>> /\ EmitBegin(k, d))
                    => PassDone(Top)' /\ Top'.seen = <<>>
       /\ Len(stack') < Len(stack)
            => EmitEnd \/ (Top.running # None /\ Throw)]_vars

\* C12 witness: destroy() has run with a wait pending and its timer
\* scheduled; the reject and the handle are still in #waiters and #timeouts,
\* so a second destroy() rejects and clears them again
C12_Witness ==
    /\ stack = <<>>
    /\ NothingToDestroy
    /\ \E w \in WaitIds :
          /\ promise[w] = [st |-> "destroyed", val |-> "none"]
          /\ timer[w] = "cleared"
          /\ w \in waiters
          /\ w \in timeouts

\* C13: a wait that has settled (resolved by an emit, rejected by its timer
\* or by destroy) has left nothing behind: its reject is not in #waiters, its
\* once wrapper is not in the registry and its timer handle is not in
\* #timeouts.
C13_SettledWaitLeavesNothing ==
    \A w \in WaitIds :
        promise[w] # Pending =>
            /\ w \notin waiters
            /\ ~Registered(Wr(WrapperOf(w)))
            /\ w \notin timeouts

\* the elements of a occur in b, in the order they have in a
RECURSIVE IsSubSeq(_, _)
IsSubSeq(a, b) ==
    IF a = <<>> THEN TRUE
    ELSE IF b = <<>> THEN FALSE
    ELSE IF Head(a) = Head(b) THEN IsSubSeq(Tail(a), Tail(b))
    ELSE IsSubSeq(a, Tail(b))

\* C14: an emit of K invokes the listeners of K one after another in the
\* order of their registration: while no callback has changed the Set of K,
\* what has been invoked so far is an initial part of the listeners
\* registered when the emit began; in general the listeners now registered
\* under K up to the position of the loop have been invoked in the order of
\* their registration; and when the emit is at its end every listener
\* registered under K has been invoked, in that order.
C14_InOrderAllInvoked ==
    \A j \in 1..Len(stack) :
        LET f == stack[j]
            ls == Listeners(calls, f.key)
        IN f.attached =>
              /\ f.idx <= Len(ls)
              /\ f.touched = {} => f.seen = SubSeq(f.snap, 1, Len(f.seen))
              /\ IsSubSeq(SubSeq(ls, 1, f.idx), f.seen)
              /\ PassDone(f) => IsSubSeq(ls, f.seen)
              /\ (PassDone(f) /\ f.touched = {}) => f.seen = f.snap

\* C14 witness: Fn(2) was registered before Fn(1) under the key, and an
\* emit of that key has run to its end and invoked Fn(2), then Fn(1)
C14_Witness ==
    /\ stack # <<>>
    /\ PassDone(Top)
    /\ Top.attached
    /\ Top.touched = {}
    /\ Top.snap = <<Fn(2), Fn(1)>>
    /\ Top.seen = <<Fn(2), Fn(1)>>

\* C15: whatever on/off calls the callbacks make, one emit invokes no
\* listener more than once.
C15_NoDoubleInvocation ==
    \A j \in 1..Len(stack) :
        \A e \in Elems(stack[j].seen) : Count(stack[j].seen, e) = 1

\* C16: a wait for K that a callback registers while an emit of K is running
\* is not reached by that emit: the emit does not invoke the wait's wrapper
\* and the wait is not resolved as long as that emit is on the stack.
C16_WaitInsideEmit ==
    \A j \in 1..Len(stack) :
        \A w \in WaitIds :
            (w > stack[j].born /\ waits[w].type = stack[j].key) =>
                /\ ~Has(stack[j].seen, Wr(WrapperOf(w)))
                /\ promise[w].st # "resolved"

\* C17: on(K, L) for an L that is already registered under K changes nothing:
\* the registry, the running loops and everything else stay as they were.  So
\* L is at most once in the Set of K, an emit of K that runs to its end with
\* L registered twice (and not added or removed meanwhile) has invoked L
\* exactly once, and one off(K, L) after the two on(K, L) leaves no L in the
\* Set of K.
C17_OnTwiceIdempotent ==
    /\ [](\A k \in Keys, L \in Fns :
            /\ Count(Listeners(calls, k), L) <= 1
            /\ Reg(k, L) = "again" => Count(Listeners(calls, k), L) = 1
            /\ \A j \in 1..Len(stack) :
                  LET f == stack[j]
                  IN (f.key = k /\ PassDone(f) /\ f.attached
                        /\ Reg(k, L) = "again" /\ L \notin f.touched)
                          => Count(f.seen, L) = 1)
    /\ [][\A k \in Keys, L \in Fns :
            /\ (Reg(k, L) = "on" /\ reg'[<<k, L>>] = "again")
                  => UNCHANGED <<calls, waiters, timeouts, timer, promise,
                                 waits, wrappers, stack>>
            /\ (Reg(k, L) = "again" /\ reg'[<<k, L>>] = "gone")
                  => ~Has(Listeners(calls', k), L)]_vars

\* C17 witness: Fn(1) was registered twice under the key, and an emit of
\* that key, during which the Set was not changed, has run to its end and
\* invoked Fn(1) once
C17_Witness ==
    /\ stack # <<>>
    /\ PassDone(Top)
    /\ Top.attached
    /\ Top.touched = {}
    /\ Reg(Top.key, Fn(1)) = "again"
    /\ Top.seen = <<Fn(1)>>

\* C18: wait(K, timeoutMs) schedules a timer and adds its handle to
\* #timeouts exactly when timeoutMs is given and greater than 0; otherwise
\* (absent, 0, negative) #timeouts stays as it is and the wait has no timer,
\* and a wait without a timer is never rejected with 'timed out'.
C18_TimerIffPositive ==
    /\ [](\A w \in WaitIds : ~HasTimer(w) => promise[w].st # "timedout")
    /\ [][\A k \in Keys, t \in TimeoutArgs :
            Wait(k, t) =>
               LET w == Len(waits) + 1
                   Positive(x) == x # None /\ x[1] > 0
               IN /\ timer'[w] # "none" <=> Positive(t)
                  /\ w \in timeouts' <=> Positive(t)
                  /\ ~Positive(t) => timeouts' = timeouts]_vars

\* C19: the number of callbacks one emit invokes is at most the number of
\* listeners that were registered under its key when it began, whatever the
\* callbacks register meanwhile.
C19_PassBounded ==
    \A j \in 1..Len(stack) : Len(stack[j].seen) <= Len(stack[j].snap)

====
